---- MODULE Spec2Model ----
(***************************************************************************)
(* Replicache client: the database handle (db/db.go), the rebase engine    *)
(* (db/rebase.go), the pull client (db/request_sync.go) and the            *)
(* requestSync RPC with its single-flight flag (api).                      *)
(*                                                                         *)
(* Commits are content addressed, so a commit is modelled by its content:  *)
(* a reference to a commit is the commit record itself, and two commits    *)
(* are the same commit exactly when their records are equal.               *)
(***************************************************************************)
EXTENDS Integers, Sequences, FiniteSets, TLC

VARIABLES
    store,      \* the set of commits written to the value store
    local,      \* head of the `local` dataset: <<>> or <<commit>>
    remote,     \* head of the `remote` dataset: <<>> or <<commit>>
    head,       \* db.head, the in-memory head commit
    syncing,    \* api.syncing, the single-flight flag
    pc,         \* per RPC caller: position inside dispatchRequestSync
    gen,        \* per RPC caller: the genesis RequestSync found
    pulls,      \* number of pulls that installed a head
    last,       \* the last operation that returned, with its result
    rb,         \* the last call of rebase, with its result
    clientID,   \* db.clientID, "" until the database is loaded
    storedID,   \* the client ID persisted in the value store, "" when none
    pulledID,   \* the state ID the last pull that succeeded returned, "" when none
    sp,         \* api.sp: the syncProgress pair of the API object
    cr,         \* the counting reader of the pull in flight and its callback
    seen        \* the last response of the syncProgress request

vars == <<store, local, remote, head, syncing, pc, gen, pulls, last, rb,
          clientID, storedID, pulledID, sp, cr, seen>>

\* the progress of a pull as the API object reports it
progvars == <<sp, cr, seen>>

\* the client ID of the handle and of the store
idvars == <<clientID, storedID>>

(***************************************************************************)
(* Bounds                                                                  *)
(***************************************************************************)
MaxTx == 2          \* Tx commits written by Put and Del in one behaviour
MaxPulls == 1       \* pulls that install a new head in one behaviour
MaxPatch == 2       \* longest patch of a pull response
MaxApiTx == 1       \* Tx commits written while RPC callers run concurrently
MaxForkTx == 3      \* Tx commits of a forked test history
MaxHeadTx == 3      \* Tx commits of a forked history whose head is rebased
MaxReorders == 2    \* rebase is not called once the store has this many Reorders
MaxDbTx == 3        \* Tx commits written through the handles of one store
MaxRpcTx == 2       \* Tx commits written through the dispatcher
MaxPulledTx == 2    \* Tx commits of a forked history in a store that was pulled into
MaxPulledReorders == 2  \* Reorders in a store that was pulled into, when rebase is called
MaxClockTx == 2     \* Tx commits written by Put and Del under a clock that moves

Keys == {"a", "b"}
ApiKeys == {"a"}     \* the keys written while RPC callers run concurrently
Callers == {"c1", "c2"}
StateIDs == {"s1"}
Dates == {2}        \* the dates a rebase is given
TxDates == {1}      \* the dates the clock gives to Put and Del
ClientIDs == {"id1", "id2"}     \* the client IDs initClientID may generate
FirstClientID == "id1"

(***************************************************************************)
(* JSON values.  RawJSON are the byte strings handed to Put; a stored      *)
(* value is a noms value (a tagged record), never the JSON text.           *)
(***************************************************************************)
RawJSON == {"\"x\"", "7", " 7 ", "{"}

BadJSON == "!malformed"

\* nomsjson.Canonicalize: the canonical form of a JSON text, or an error.
Canonicalize(raw) ==
    CASE raw = "\"x\"" -> "\"x\""
      [] raw = "7"     -> "7"
      [] raw = " 7 "   -> "7"
      [] OTHER         -> BadJSON

\* nomsjson.FromJSON: the noms value of a canonical JSON text.
FromJSON(json) ==
    CASE json = "\"x\"" -> [kind |-> "String", str |-> "x", num |-> 0]
      [] json = "7"     -> [kind |-> "Number", str |-> "",  num |-> 7]

\* nomsjson.ToJSON: the JSON text of a noms value.
ToJSON(value) ==
    CASE value.kind = "String" /\ value.str = "x" -> "\"x\""
      [] value.kind = "Number" /\ value.num = 7   -> "7"

CanonicalJSON == {j \in RawJSON : Canonicalize(j) = j}
Values == {FromJSON(j) : j \in CanonicalJSON}

(***************************************************************************)
(* Checksummed map (kv.Map): a function from a set of keys to values, and  *)
(* the additive checksum over its entries.                                 *)
(***************************************************************************)
EmptyMap == [k \in {} |-> FromJSON("7")]

Maps == UNION {[S -> Values] : S \in SUBSET Keys}

KeyWeight(k) == IF k = "a" THEN 1 ELSE IF k = "b" THEN 3 ELSE 9
ValueHash(v) == IF v.kind = "String" THEN 1 ELSE 2
EntryHash(k, v) == KeyWeight(k) * ValueHash(v)
ChecksumModulus == 27

RECURSIVE SumEntries(_, _)
SumEntries(m, ks) ==
    IF ks = {} THEN 0
    ELSE LET k == CHOOSE x \in ks : TRUE
         IN  EntryHash(k, m[k]) + SumEntries(m, ks \ {k})

\* kv.Map.Checksum
Checksum(m) == SumEntries(m, DOMAIN m) % ChecksumModulus

\* MapEditor.Set / MapEditor.Remove followed by Build
MapSet(m, k, v) == [x \in (DOMAIN m) \cup {k} |-> IF x = k THEN v ELSE m[x]]
MapRemove(m, k) == [x \in (DOMAIN m) \ {k} |-> m[x]]

\* a kv.Map: its entries and the checksum it carries
KvMap(entries, sum) == [entries |-> entries, sum |-> sum]

\* kv.NewMap: the empty map with the checksum of no entry
NewMap == KvMap(EmptyMap, 0)

\* the term an entry of the map contributes to its checksum, 0 when absent
Term(m, k) == IF k \in DOMAIN m THEN EntryHash(k, m[k]) ELSE 0

\* [mutant] a set over an existing key leaves the term of the old value in
EditorSetKeepsOldTerm(m, k, v) ==
    KvMap(MapSet(m.entries, k, v), (m.sum + EntryHash(k, v)) % ChecksumModulus)

\* MapEditor.Set and Build: the checksum is updated, not computed again: the
\* term of the old entry leaves it, the term of the new entry enters it
EditorSet(m, k, v) ==
    KvMap(MapSet(m.entries, k, v),
          (m.sum + ChecksumModulus - Term(m.entries, k) + EntryHash(k, v))
             % ChecksumModulus)

\* MapEditor.Remove and Build: the term of the entry leaves the checksum
EditorRemove(m, k) ==
    KvMap(MapRemove(m.entries, k),
          (m.sum + ChecksumModulus - Term(m.entries, k)) % ChecksumModulus)

(***************************************************************************)
(* Commit model                                                            *)
(***************************************************************************)
NoArgs == [key |-> "", value |-> FromJSON("7"), arity |-> 0]
PutArgs(k, v) == [key |-> k, value |-> v, arity |-> 2]
DelArgs(k) == [key |-> k, value |-> FromJSON("7"), arity |-> 1]

makeGenesis(serverStateID, data, checksum, lastMutationID) ==
    [type |-> "Genesis", parents |-> <<>>, data |-> data, checksum |-> checksum,
     lastMutationID |-> lastMutationID, serverStateID |-> serverStateID,
     date |-> 0, name |-> "", args |-> NoArgs]

makeTx(basis, date, name, args, data, checksum) ==
    [type |-> "Tx", parents |-> <<basis>>, data |-> data, checksum |-> checksum,
     lastMutationID |-> basis.lastMutationID + 1, serverStateID |-> "",
     date |-> date, name |-> name, args |-> args]

makeReorder(basis, date, subject, data, checksum) ==
    [type |-> "Reorder", parents |-> <<basis, subject>>, data |-> data,
     checksum |-> checksum, lastMutationID |-> basis.lastMutationID,
     serverStateID |-> "", date |-> date, name |-> "", args |-> NoArgs]

\* Commit.Basis: the first parent
Basis(c) == c.parents[1]

\* Commit.InitalCommit: follow the subject links of Reorder commits
RECURSIVE InitalCommit(_)
InitalCommit(c) ==
    IF c.type = "Reorder" THEN InitalCommit(c.parents[2]) ELSE c

\* the commits reachable from c through parents, c included
RECURSIVE Ancestors(_)
Ancestors(c) ==
    {c} \cup UNION {Ancestors(c.parents[i]) : i \in 1..Len(c.parents)}

\* the first-parent chain of c, head first, c included
RECURSIVE FirstParents(_)
FirstParents(c) ==
    IF Len(c.parents) = 0 THEN <<c>> ELSE <<c>> \o FirstParents(c.parents[1])

\* height of a reference to the commit
RECURSIVE Height(_)
Height(c) ==
    IF Len(c.parents) = 0 THEN 1
    ELSE LET hs == {Height(c.parents[i]) : i \in 1..Len(c.parents)}
         IN  1 + CHOOSE h \in hs : \A g \in hs : g <= h

\* Commit.Data: the map of a commit, with the checksum the commit records
Data(c) == KvMap(c.data, c.checksum)

\* Commit{}: the zero value rebase returns with an error
NoCommit ==
    [type |-> "Zero", parents |-> <<>>, data |-> EmptyMap, checksum |-> 0,
     lastMutationID |-> 0, serverStateID |-> "", date |-> 0, name |-> "",
     args |-> NoArgs]

\* [mutant] the first genesis is created with lastMutationID 1
GenesisCommitCounted == makeGenesis("", EmptyMap, Checksum(EmptyMap), 1)

\* the genesis init writes to a store with no local head
GenesisCommit == makeGenesis("", EmptyMap, Checksum(EmptyMap), 0)

(***************************************************************************)
(* Value store primitives                                                  *)
(***************************************************************************)
\* Database.FastForward: the new head must descend from the current one
CanFastForward(ds, c) == ds = <<>> \/ ds[1] \in Ancestors(c)

(***************************************************************************)
(* DB.execImpl: run an internal transaction against a basis.  edOK is the  *)
(* outcome of the editor call (MapEditor.Set / MapEditor.Remove).  An      *)
(* internal function that meets no case of the switch makes no call on the *)
(* map: it returns the data of the basis, no checksum, and isWrite false.  *)
(***************************************************************************)
\* the zero types.String, which is no checksum
NoChecksum == 0 - 1

\* [mutant] the new commit records the checksum of its basis
NewDataChecksumOfBasis(basis, newMap) == basis.checksum

\* newDataChecksum = newMap.NomsChecksum()
NewDataChecksum(basis, newMap) == newMap.sum

\* [mutant] .putValue returns the data of the basis: the built map is dropped
execImplKeepsBasisData(basis, function, args, edOK) ==
    CASE function = ".putValue" ->
            IF ~edOK
            THEN [err |-> TRUE, data |-> EmptyMap, checksum |-> 0,
                  output |-> FALSE, isWrite |-> TRUE]
            ELSE [err |-> FALSE, data |-> basis.data, checksum |-> basis.checksum,
                  output |-> FALSE, isWrite |-> TRUE]
      [] function = ".delValue" ->
            IF ~edOK
            THEN [err |-> TRUE, data |-> EmptyMap, checksum |-> 0,
                  output |-> FALSE, isWrite |-> TRUE]
            ELSE LET newMap == EditorRemove(Data(basis), args.key)
                 IN  [err |-> FALSE, data |-> newMap.entries, checksum |-> NewDataChecksum(basis, newMap),
                      output |-> args.key \in DOMAIN basis.data, isWrite |-> TRUE]
      [] OTHER ->
            [err |-> FALSE, data |-> basis.data, checksum |-> NoChecksum,
             output |-> FALSE, isWrite |-> FALSE]

\* [mutant] .delValue asks the editor for the key after removing it
execImplHasAfterRemove(basis, function, args, edOK) ==
    CASE function = ".putValue" ->
            IF ~edOK
            THEN [err |-> TRUE, data |-> EmptyMap, checksum |-> 0,
                  output |-> FALSE, isWrite |-> TRUE]
            ELSE LET newMap == EditorSet(Data(basis), args.key, args.value)
                 IN  [err |-> FALSE, data |-> newMap.entries, checksum |-> NewDataChecksum(basis, newMap),
                      output |-> FALSE, isWrite |-> TRUE]
      [] function = ".delValue" ->
            IF ~edOK
            THEN [err |-> TRUE, data |-> EmptyMap, checksum |-> 0,
                  output |-> FALSE, isWrite |-> TRUE]
            ELSE LET newMap == EditorRemove(Data(basis), args.key)
                 IN  [err |-> FALSE, data |-> newMap.entries, checksum |-> NewDataChecksum(basis, newMap),
                      output |-> args.key \in DOMAIN newMap.entries, isWrite |-> TRUE]
      [] OTHER ->
            [err |-> FALSE, data |-> basis.data, checksum |-> NoChecksum,
             output |-> FALSE, isWrite |-> FALSE]

\* [mutant] a transaction that leaves the map as it was is not a write
execImplWritesOnChange(basis, function, args, edOK) ==
    CASE function = ".putValue" ->
            IF ~edOK
            THEN [err |-> TRUE, data |-> EmptyMap, checksum |-> 0,
                  output |-> FALSE, isWrite |-> TRUE]
            ELSE LET newMap == EditorSet(Data(basis), args.key, args.value)
                 IN  [err |-> FALSE, data |-> newMap.entries, checksum |-> NewDataChecksum(basis, newMap),
                      output |-> FALSE, isWrite |-> newMap.entries # basis.data]
      [] function = ".delValue" ->
            IF ~edOK
            THEN [err |-> TRUE, data |-> EmptyMap, checksum |-> 0,
                  output |-> FALSE, isWrite |-> TRUE]
            ELSE LET newMap == EditorRemove(Data(basis), args.key)
                 IN  [err |-> FALSE, data |-> newMap.entries, checksum |-> NewDataChecksum(basis, newMap),
                      output |-> args.key \in DOMAIN basis.data,
                      isWrite |-> args.key \in DOMAIN basis.data]
      [] OTHER ->
            [err |-> FALSE, data |-> basis.data, checksum |-> NoChecksum,
             output |-> FALSE, isWrite |-> FALSE]

execImpl(basis, function, args, edOK) ==
    CASE function = ".putValue" ->
            IF ~edOK
            THEN [err |-> TRUE, data |-> EmptyMap, checksum |-> 0,
                  output |-> FALSE, isWrite |-> TRUE]
            ELSE LET newMap == EditorSet(Data(basis), args.key, args.value)
                 IN  [err |-> FALSE, data |-> newMap.entries, checksum |-> NewDataChecksum(basis, newMap),
                      output |-> FALSE, isWrite |-> TRUE]
      [] function = ".delValue" ->
            IF ~edOK
            THEN [err |-> TRUE, data |-> EmptyMap, checksum |-> 0,
                  output |-> FALSE, isWrite |-> TRUE]
            ELSE LET newMap == EditorRemove(Data(basis), args.key)
                 IN  [err |-> FALSE, data |-> newMap.entries, checksum |-> NewDataChecksum(basis, newMap),
                      output |-> args.key \in DOMAIN basis.data, isWrite |-> TRUE]
      [] OTHER ->
            [err |-> FALSE, data |-> basis.data, checksum |-> NoChecksum,
             output |-> FALSE, isWrite |-> FALSE]

\* DB.Has / DB.Get on the in-memory head
Absent == "!absent"
Has(c, id) == id \in DOMAIN c.data
Get(c, id) == IF id \in DOMAIN c.data THEN ToJSON(c.data[id]) ELSE Absent

\* DB.RemoteHead: the head of the remote dataset, or an empty genesis
RemoteHead ==
    IF remote = <<>> THEN makeGenesis("", EmptyMap, Checksum(EmptyMap), 0)
    ELSE remote[1]

\* the options of a scan: no prefix, no start, no limit
NoScanOptions == [prefix |-> "", start |-> "", exclusive |-> FALSE, limit |-> 0]

\* inPull: the operation ran while a RequestSync was waiting for its response;
\* opts, items and root: the options and the response of a scan, and the
\* response of getRoot
NoOp == [op |-> "none", key |-> "", raw |-> "", result |-> "none", ok |-> FALSE,
         inPull |-> FALSE, opts |-> NoScanOptions, items |-> <<>>,
         root |-> NoCommit]

\* a RequestSync is between sending its request and reading the response
InPull == \E c \in Callers : pc[c] \in {"pulling", "pullingBad"}

(***************************************************************************)
(* DB.execInternal: commit an internal transaction on top of the head.     *)
(* `failed` is what the caller makes of an error: Put returns it, Del      *)
(* panics converting the nil result.                                       *)
(***************************************************************************)
\* [mutant] a transaction that wrote nothing is committed like any other
IsReadOnlyNever(r) == FALSE

\* if !isWrite: no commit is added for a read-only transaction
IsReadOnly(r) == ~r.isWrite

\* [mutant] the basis of the new commit is the basis of the head
TxBasisSkipsHead(h) == IF Len(h.parents) = 0 THEN h ELSE h.parents[1]

\* basis := types.NewRef(db.head.Original)
TxBasis(h) == h

\* [mutant] db.head is assigned before FastForward is asked
execInternalHeadFirst(function, args, date, edOK, op, failed) ==
    LET basis  == TxBasis(head)
        r      == execImpl(basis, function, args, edOK)
        commit == makeTx(basis, date, function, args, r.data, r.checksum)
    IN  IF r.err
        THEN /\ last' = [NoOp EXCEPT !.op = op.op, !.result = failed]
             /\ UNCHANGED <<store, local, head>>
        ELSE IF IsReadOnly(r)
        THEN /\ last' = [op EXCEPT !.result = "ok", !.ok = r.output]
             /\ UNCHANGED <<store, local, head>>
        ELSE /\ store' = store \cup {commit}
             /\ head' = commit
             /\ IF CanFastForward(local, commit)
                THEN /\ local' = <<commit>>
                     /\ last' = [op EXCEPT !.result = "ok", !.ok = r.output]
                ELSE /\ last' = [NoOp EXCEPT !.op = op.op, !.result = failed]
                     /\ UNCHANGED local

execInternal(function, args, date, edOK, op, failed) ==
    LET basis  == TxBasis(head)
        r      == execImpl(basis, function, args, edOK)
        commit == makeTx(basis, date, function, args, r.data, r.checksum)
    IN  IF r.err
        THEN /\ last' = [NoOp EXCEPT !.op = op.op, !.result = failed]
             /\ UNCHANGED <<store, local, head>>
        ELSE IF IsReadOnly(r)
        THEN /\ last' = [op EXCEPT !.result = "ok", !.ok = r.output]
             /\ UNCHANGED <<store, local, head>>
        ELSE /\ store' = store \cup {commit}
             /\ IF CanFastForward(local, commit)
                THEN /\ local' = <<commit>>
                     /\ head' = commit
                     /\ last' = [op EXCEPT !.result = "ok", !.ok = r.output]
                ELSE /\ last' = [NoOp EXCEPT !.op = op.op, !.result = failed]
                     /\ UNCHANGED <<local, head>>

\* the Tx commits in the store
TxCount == Cardinality({c \in store : c.type = "Tx"})

\* DB.Put
Put(path, JSON, date, edOK) ==
    /\ LET canonicalJSON == Canonicalize(JSON)
           op == [NoOp EXCEPT !.op = "Put", !.key = path, !.raw = JSON,
                              !.inPull = InPull]
       IN  IF canonicalJSON = BadJSON
           THEN /\ last' = [NoOp EXCEPT !.op = "Put", !.result = "error"]
                /\ UNCHANGED <<store, local, head>>
           ELSE execInternal(".putValue", PutArgs(path, FromJSON(canonicalJSON)),
                             date, edOK, op, "error")
    /\ UNCHANGED <<remote, syncing, pc, gen, pulls, rb, idvars, pulledID, progvars>>

\* DB.Del: on an error of execInternal the conversion of the nil result panics
Del(path, date, edOK) ==
    /\ execInternal(".delValue", DelArgs(path), date, edOK,
                    [NoOp EXCEPT !.op = "Del", !.key = path, !.inPull = InPull],
                    "panic")
    /\ UNCHANGED <<remote, syncing, pc, gen, pulls, rb, idvars, pulledID, progvars>>

\* DB.init with an existing local head, as run by Reload
Reload ==
    /\ local # <<>>
    /\ head' = local[1]
    /\ last' = [NoOp EXCEPT !.op = "Reload", !.result = "ok"]
    /\ UNCHANGED <<store, local, remote, syncing, pc, gen, pulls, rb, idvars, pulledID, progvars>>

(***************************************************************************)
(* Pull responses.  A patch operation has an op and a path; the path       *)
(* "/u/<key>" is <<"u", key>>, the path "/" is <<>>.                       *)
(***************************************************************************)
PatchOp(op, path, value) == [op |-> op, path |-> path, value |-> value]

PatchOps ==
    {PatchOp("add", <<"u", "a">>, FromJSON("\"x\"")),
     PatchOp("add", <<"u", "b">>, FromJSON("7")),
     PatchOp("remove", <<"u", "a">>, FromJSON("7")),
     PatchOp("remove", <<>>, FromJSON("7")),
     PatchOp("replace", <<"s", "code">>, FromJSON("7"))}

Patches == UNION {[1..n -> PatchOps] : n \in 0..MaxPatch}

IsClearAll(o) == o.op = "remove" /\ o.path = <<>>

\* [mutant] an operation that is not supported is skipped
ApplyOneSkipsUnsupported(r, o) ==
    IF r.err THEN r
    ELSE IF Len(o.path) = 2 /\ o.path[1] = "u" /\ o.op = "add"
         THEN [err |-> FALSE, map |-> MapSet(r.map, o.path[2], o.value)]
    ELSE IF Len(o.path) = 2 /\ o.path[1] = "u" /\ o.op = "remove"
         THEN [err |-> FALSE, map |-> MapRemove(r.map, o.path[2])]
    ELSE r

\* one operation of a patch: the map after it, or an invalid-patch error
ApplyOne(r, o) ==
    IF r.err THEN r
    ELSE IF Len(o.path) = 2 /\ o.path[1] = "u" /\ o.op = "add"
         THEN [err |-> FALSE, map |-> MapSet(r.map, o.path[2], o.value)]
    ELSE IF Len(o.path) = 2 /\ o.path[1] = "u" /\ o.op = "remove"
         THEN [err |-> FALSE, map |-> MapRemove(r.map, o.path[2])]
    ELSE [err |-> TRUE, map |-> r.map]

RECURSIVE ApplyOps(_, _)
ApplyOps(r, ops) ==
    IF ops = <<>> THEN r ELSE ApplyOps(ApplyOne(r, Head(ops)), Tail(ops))

\* the patch loop of RequestSync (kv.ApplyPatch since it moved out of the
\* repository).  A leading clear-all is dropped and the value starts empty,
\* else it starts as `base`; the editor, made at the first operation under
\* /u, is opened on `base` in both cases, and its map, when there is an
\* editor, is the result.
ApplyPatch(base, patch) ==
    LET cleared == patch # <<>> /\ IsClearAll(Head(patch))
        ops     == IF cleared THEN Tail(patch) ELSE patch
        value   == IF cleared THEN EmptyMap ELSE base
    IN  IF ops = <<>> THEN [err |-> FALSE, map |-> value]
        ELSE ApplyOps([err |-> FALSE, map |-> base], ops)

\* the checksum string of a response: a checksum, or a string that is none
MalformedChecksum == 0 - 1

\* the checksums a server may send with a patch for a client at `genesis`:
\* the checksum of the map it means, another checksum, a malformed string
ResponseChecksums(genesis, patch) ==
    LET patched == ApplyPatch(genesis.data, patch)
        sum     == Checksum(patched.map)
    IN  IF patched.err THEN {sum}
        ELSE {MalformedChecksum, sum, (sum + 1) % ChecksumModulus}

\* kv.ChecksumFromString
ChecksumFromString(s) ==
    IF s = MalformedChecksum THEN [err |-> TRUE, sum |-> 0]
    ELSE [err |-> FALSE, sum |-> s]

StatusOK == 200
StatusForbidden == 403
StatusBadRequest == 400

Response(neterr, status, json, stateID, patch, checksum) ==
    [neterr |-> neterr, status |-> status, json |-> json, stateID |-> stateID,
     patch |-> patch, checksum |-> checksum]

Responses(genesis) ==
    {Response(TRUE, 0, FALSE, "", <<>>, 0),
     Response(FALSE, StatusBadRequest, FALSE, "", <<>>, 0),
     Response(FALSE, StatusForbidden, FALSE, "", <<>>, 0),
     Response(FALSE, StatusOK, FALSE, "", <<>>, 0)}
    \cup UNION {{Response(FALSE, StatusOK, TRUE, s, p, c) :
                   s \in StateIDs, c \in ResponseChecksums(genesis, p)} :
                p \in Patches}

\* findGenesis: the nearest Genesis on the first-parent chain
\* findGenesis returns a commit and no error: the walk along the first
\* parents meets a Genesis before it meets a commit without parents
RECURSIVE HasGenesis(_)
HasGenesis(c) ==
    IF c.type = "Genesis" THEN TRUE
    ELSE IF Len(c.parents) = 0 THEN FALSE
    ELSE HasGenesis(c.parents[1])

\* [mutant] the walk stops at the first parent
findGenesisOneStep(c) ==
    IF c.type = "Genesis" THEN c ELSE c.parents[1]

RECURSIVE findGenesis(_)
findGenesis(c) ==
    IF c.type = "Genesis" THEN c ELSE findGenesis(c.parents[1])

\* [mutant] the checksum of the patched map is not compared with the response
PullSkipsChecksum(genesis, resp) ==
    LET patched  == ApplyPatch(genesis.data, resp.patch)
        expected == ChecksumFromString(resp.checksum)
        newHead  == makeGenesis(resp.stateID, patched.map, Checksum(patched.map), 0)
    IN  IF resp.neterr THEN [err |-> "transport", newHead |-> genesis]
        ELSE IF resp.status = StatusForbidden THEN [err |-> "auth", newHead |-> genesis]
        ELSE IF resp.status # StatusOK THEN [err |-> "status", newHead |-> genesis]
        ELSE IF ~resp.json THEN [err |-> "json", newHead |-> genesis]
        ELSE IF patched.err THEN [err |-> "patch", newHead |-> genesis]
        ELSE IF expected.err THEN [err |-> "checksum", newHead |-> genesis]
        ELSE [err |-> "", newHead |-> newHead]

\* [mutant] the new genesis keeps the server state id of the old one
PullKeepsStateID(genesis, resp) ==
    LET patched  == ApplyPatch(genesis.data, resp.patch)
        expected == ChecksumFromString(resp.checksum)
        newHead  == makeGenesis(genesis.serverStateID, patched.map,
                                Checksum(patched.map), 0)
    IN  IF resp.neterr THEN [err |-> "transport", newHead |-> genesis]
        ELSE IF resp.status = StatusForbidden THEN [err |-> "auth", newHead |-> genesis]
        ELSE IF resp.status # StatusOK THEN [err |-> "status", newHead |-> genesis]
        ELSE IF ~resp.json THEN [err |-> "json", newHead |-> genesis]
        ELSE IF patched.err THEN [err |-> "patch", newHead |-> genesis]
        ELSE IF expected.err THEN [err |-> "checksum", newHead |-> genesis]
        ELSE IF Checksum(patched.map) # expected.sum
             THEN [err |-> "checksum", newHead |-> genesis]
        ELSE [err |-> "", newHead |-> newHead]

\* DB.RequestSync from the response on: the error it returns, or the new head
Pull(genesis, resp) ==
    LET patched  == ApplyPatch(genesis.data, resp.patch)
        expected == ChecksumFromString(resp.checksum)
        newHead  == makeGenesis(resp.stateID, patched.map, Checksum(patched.map), 0)
    IN  IF resp.neterr THEN [err |-> "transport", newHead |-> genesis]
        ELSE IF resp.status = StatusForbidden THEN [err |-> "auth", newHead |-> genesis]
        ELSE IF resp.status # StatusOK THEN [err |-> "status", newHead |-> genesis]
        ELSE IF ~resp.json THEN [err |-> "json", newHead |-> genesis]
        ELSE IF patched.err THEN [err |-> "patch", newHead |-> genesis]
        ELSE IF expected.err THEN [err |-> "checksum", newHead |-> genesis]
        ELSE IF Checksum(patched.map) # expected.sum
             THEN [err |-> "checksum", newHead |-> genesis]
        ELSE [err |-> "", newHead |-> newHead]

(***************************************************************************)
(* api.dispatchRequestSync, one caller c                                   *)
(***************************************************************************)
SyncOp(c) == [NoOp EXCEPT !.op = "requestSync"]

\* atomic.CompareAndSwapInt32(&api.syncing, 0, 1)
Acquire(c) ==
    /\ pc[c] = "idle"
    /\ IF syncing = 0
       THEN /\ syncing' = 1
            /\ pc' = [pc EXCEPT ![c] = "acquired"]
            /\ UNCHANGED last
       ELSE /\ last' = [SyncOp(c) EXCEPT !.result = "inprogress"]
            /\ UNCHANGED <<syncing, pc>>
    /\ UNCHANGED <<store, local, remote, head, gen, pulls, rb, idvars, pulledID, progvars>>

\* [mutant] the flag is not released
DeferredReleaseKeepsFlag(flag) == flag

\* the value the defer statement's argument gives the flag
DeferredRelease(flag) == IF flag = 1 THEN 0 ELSE flag

\* the defer statement evaluates its CompareAndSwapInt32(&api.syncing, 1, 0)
\* argument at once; then db.RequestSync finds the genesis and sends the pull
Enter(c) ==
    /\ pc[c] = "acquired"
    /\ IF HasGenesis(head)
       THEN /\ syncing' = DeferredRelease(syncing)
            /\ pc' = [pc EXCEPT ![c] =
                        IF syncing = 1 THEN "pulling" ELSE "pullingBad"]
            /\ gen' = [gen EXCEPT ![c] = findGenesis(head)]
            /\ UNCHANGED last
       ELSE /\ syncing' = DeferredRelease(syncing)
            /\ pc' = [pc EXCEPT ![c] = "idle"]
            /\ last' = [SyncOp(c) EXCEPT !.result =
                          IF syncing = 1 THEN "error" ELSE "panic",
                        !.raw = "genesis"]
            /\ UNCHANGED gen
    /\ UNCHANGED <<store, local, remote, head, pulls, rb, idvars, pulledID, progvars>>

\* the value the flag has when dispatchRequestSync returns
ReturnFlag(flag) == flag

\* [mutant] the auth error is not told from the other errors
DispatchResultAuthIsError(err) == "error"

\* what dispatchRequestSync makes of an error of db.RequestSync: "badAuth" is
\* the response {error: {badAuth}} without root and without an RPC error,
\* "error" is the RPC error with no response
DispatchResult(err) == IF err = "auth" THEN "badAuth" ELSE "error"

\* the body of the pull request RequestSync sends for the genesis it found
PullRequest(genesis) ==
    [baseStateID |-> genesis.serverStateID, checksum |-> genesis.checksum]

\* the response arrives: RequestSync returns an error, or sets the local head
Respond(c, resp) ==
    /\ pc[c] \in {"pulling", "pullingBad"}
    /\ LET r == Pull(gen[c], resp)
       IN  IF r.err # ""
           THEN /\ pc' = [pc EXCEPT ![c] = "idle"]
                /\ gen' = [gen EXCEPT ![c] = GenesisCommit]
                /\ syncing' = ReturnFlag(syncing)
                /\ last' = [SyncOp(c) EXCEPT !.result =
                              IF pc[c] = "pullingBad" THEN "panic"
                              ELSE DispatchResult(r.err),
                            !.raw = r.err]
                /\ UNCHANGED <<store, local, pulls, pulledID>>
           ELSE /\ pulls < MaxPulls
                /\ pulls' = pulls + 1
                /\ pulledID' = resp.stateID
                /\ store' = store \cup {r.newHead}
                /\ local' = <<r.newHead>>
                /\ pc' = [pc EXCEPT ![c] =
                            IF pc[c] = "pullingBad" THEN "installedBad" ELSE "installed"]
                /\ UNCHANGED <<syncing, last, gen>>
    /\ UNCHANGED <<remote, head, rb, idvars, progvars>>

\* db.init at the end of RequestSync, and the return of the RPC
Finish(c) ==
    /\ pc[c] \in {"installed", "installedBad"}
    /\ head' = local[1]
    /\ pc' = [pc EXCEPT ![c] = "idle"]
    /\ syncing' = ReturnFlag(syncing)
    /\ last' = [SyncOp(c) EXCEPT !.result =
                  IF pc[c] = "installedBad" THEN "panic" ELSE "ok"]
    /\ gen' = [gen EXCEPT ![c] = GenesisCommit]
    /\ UNCHANGED <<store, local, remote, pulls, rb, idvars, pulledID, progvars>>

(***************************************************************************)
(* The progress of a pull (db/request_sync.go:96-132) and the syncProgress *)
(* request (api: dispatchRequestSync, dispatchSyncProgress).  The response *)
(* is read through a counting reader whose Callback runs after each read;  *)
(* the callback of dispatchRequestSync stores the pair in api.sp on the    *)
(* goroutine of the pull while dispatchSyncProgress reads api.sp on its    *)
(* caller's goroutine, neither under a lock.                               *)
(***************************************************************************)
MaxBytes == 3           \* bytes of a response body
MaxProgressPulls == 2   \* pulls that reach the response in one behaviour

\* uint64 has 64 bits; the model keeps the conversion and scales the width
\* so that the values stay in TLC's range: uint64(-1) is the largest value
\* and no count of the model comes near it
UintWidth == 16
Uint64(x) == x % (2 ^ UintWidth)

\* the Entity-length header of a response: absent, not an integer, or an
\* integer strconv.ParseInt accepts
NoHeader == [present |-> FALSE, integral |-> FALSE, value |-> 0]
BadHeader == [present |-> TRUE, integral |-> FALSE, value |-> 0]
IntHeader(v) == [present |-> TRUE, integral |-> TRUE, value |-> v]
EntityLengths == {NoHeader, BadHeader} \cup {IntHeader(v) : v \in {-1, 0, MaxBytes - 1}}

\* resp.ContentLength: -1 when the length is unknown
ContentLengths == {-1, 0, MaxBytes - 1}

\* the bytes one Read of the body may return
ReadSizes == 0..2

\* getExpectedLength of RequestSync
getExpectedLength(header, contentLength) ==
    IF header.present
    THEN IF header.integral
         THEN [err |-> FALSE, r |-> header.value]
         ELSE [err |-> TRUE, r |-> 0]
    ELSE IF contentLength >= 0
         THEN [err |-> FALSE, r |-> contentLength]
         ELSE [err |-> FALSE, r |-> 0]

syncProgress(received, expected) ==
    [bytesReceived |-> received, bytesExpected |-> expected]

\* cr.Callback: the pair handed to progress when cr.Count is count
Callback(count, expected) ==
    LET exp == Uint64(expected)
    IN  IF exp = 0
        THEN syncProgress(count, count)
        ELSE IF count > exp
             THEN syncProgress(exp, exp)
             ELSE syncProgress(count, exp)

\* phase: idle, reading (in Decode), storing (in the callback, one field of
\* api.sp stored and `pending` still to store).  rec, exp are the arguments
\* of the last call of progress, called whether this pull called it, done the
\* pair of the last call that returned, n the pulls started.
NoReader ==
    [phase |-> "idle", header |-> NoHeader, contentLength |-> -1, expected |-> 0,
     Count |-> 0, rec |-> 0, exp |-> 0, called |-> FALSE, pending |-> "",
     done |-> syncProgress(0, 0), n |-> 0]

NoResponse == [called |-> FALSE, res |-> syncProgress(0, 0)]

InitProgress ==
    /\ sp = syncProgress(0, 0)
    /\ cr = NoReader
    /\ seen = NoResponse

progframe == <<store, local, remote, head, syncing, pc, gen, pulls, last, rb,
               idvars, pulledID>>

\* RequestSync from the 200 response to the decoder: a non-integral
\* Entity-length returns an error before anything is read
StartPull(header, contentLength) ==
    /\ cr.phase = "idle"
    /\ cr.n < MaxProgressPulls
    /\ LET e == getExpectedLength(header, contentLength)
       IN  cr' = IF e.err
                 THEN [cr EXCEPT !.n = @ + 1]
                 ELSE [cr EXCEPT !.phase = "reading", !.header = header,
                                 !.contentLength = contentLength,
                                 !.expected = e.r, !.Count = 0, !.called = FALSE,
                                 !.n = @ + 1]
    /\ UNCHANGED <<sp, seen, progframe>>

\* one Read of the decoder: the reader counts the bytes and calls Callback,
\* which calls progress; the assignment of the struct api.sp is two stores,
\* in the order the build chose, and this step ends after the first
Read(n, first) ==
    /\ cr.phase = "reading"
    /\ cr.Count + n <= MaxBytes
    /\ cr.contentLength >= 0 => cr.Count + n <= cr.contentLength
    /\ LET p == Callback(cr.Count + n, cr.expected)
       IN  /\ cr' = [cr EXCEPT !.phase = "storing", !.Count = @ + n,
                               !.rec = p.bytesReceived, !.exp = p.bytesExpected,
                               !.called = TRUE,
                               !.pending = IF first = "bytesReceived"
                                           THEN "bytesExpected"
                                           ELSE "bytesReceived"]
           /\ sp' = IF first = "bytesReceived"
                    THEN [sp EXCEPT !.bytesReceived = p.bytesReceived]
                    ELSE [sp EXCEPT !.bytesExpected = p.bytesExpected]
    /\ UNCHANGED <<seen, progframe>>

\* the second store of the assignment; progress returns
Store ==
    /\ cr.phase = "storing"
    /\ sp' = IF cr.pending = "bytesReceived"
             THEN [sp EXCEPT !.bytesReceived = cr.rec]
             ELSE [sp EXCEPT !.bytesExpected = cr.exp]
    /\ cr' = [cr EXCEPT !.phase = "reading", !.pending = "",
                        !.done = syncProgress(cr.rec, cr.exp)]
    /\ UNCHANGED <<seen, progframe>>

\* Decode returns, with a value or an error
EndPull ==
    /\ cr.phase = "reading"
    /\ cr' = [cr EXCEPT !.phase = "idle"]
    /\ UNCHANGED <<sp, seen, progframe>>

dispatchSyncProgress ==
    /\ seen' = [called |-> TRUE, res |-> syncProgress(sp.bytesReceived, sp.bytesExpected)]
    /\ UNCHANGED <<sp, cr, progframe>>

NextProgress ==
    \/ \E header \in EntityLengths, contentLength \in ContentLengths :
            StartPull(header, contentLength)
    \/ \E n \in ReadSizes, first \in {"bytesReceived", "bytesExpected"} : Read(n, first)
    \/ Store
    \/ EndPull
    \/ dispatchSyncProgress

NoRebase == [called |-> FALSE, onto |-> GenesisCommit, commit |-> GenesisCommit,
             date |-> 0, forkPoint |-> GenesisCommit, err |-> "", result |-> GenesisCommit,
             written |-> {}, created |-> {}, failAt |-> 0]

\* DB.New on an empty store: init writes the genesis and fast-forwards local
Init ==
    /\ store = {GenesisCommit}
    /\ local = <<GenesisCommit>>
    /\ remote = <<>>
    /\ head = GenesisCommit
    /\ syncing = 0
    /\ pc = [c \in Callers |-> "idle"]
    /\ gen = [c \in Callers |-> GenesisCommit]
    /\ pulls = 0
    /\ last = NoOp
    /\ rb = NoRebase
    /\ clientID = FirstClientID
    /\ storedID = FirstClientID
    /\ pulledID = ""
    /\ InitProgress

(***************************************************************************)
(* rebase (db/rebase.go).  failAt is the execution that fails (an error of *)
(* the map editor): the first, the second, ... of the call, 0 for none.    *)
(***************************************************************************)
\* datas.FindCommonAncestor: the common ancestors of greatest height
CommonAncestors(c1, c2) ==
    LET common == Ancestors(c1) \cap Ancestors(c2)
    IN  {a \in common : \A b \in common : Height(b) <= Height(a)}

RebaseResult(err, commit, written) ==
    [err |-> err, commit |-> commit, written |-> written]

\* the commit a frame of rebase executes again
ReplayTarget(commit) ==
    IF commit.type = "Reorder" THEN InitalCommit(commit) ELSE commit

\* [mutant] a frame never takes its basis for unmoved
SameBasisNever(newBasis, oldBasis) == FALSE

\* what a frame of rebase returns when its basis did not move
SameBasis(newBasis, oldBasis) == newBasis = oldBasis

\* [mutant] rebase returns the commit it was given at the fork point
AtForkPointKeepsCommit(onto, commit) == commit

\* what rebase returns at the fork point
AtForkPoint(onto, commit) == onto

\* [mutant] every transaction is executed against onto
ReplayBasisIsOnto(onto, newBasis) == onto

\* the basis a frame of rebase executes its transaction against
ReplayBasis(onto, newBasis) == newBasis

\* [mutant] a Reorder keeps the date of the commit it replays
ReorderDateOfCommit(date, commit) == commit.date

\* the date of the Reorder a frame of rebase makes
ReorderDate(date, commit) == date

\* [mutant] the subject of a Reorder is the original Tx
ReorderSubjectIsTarget(commit, target) == target

\* the subject of the Reorder a frame of rebase makes
ReorderSubject(commit, target) == commit

\* [mutant] the error of a re-execution is dropped
ReplayFailedIgnored(r) == FALSE

\* whether the re-execution of a frame of rebase returned an error
ReplayFailed(r) == r.err

\* [mutant] only the Reorder of the last frame is written
WriteValueLastOnly(written, c) == {c}

\* db.noms.WriteValue(newCommit.Original): the Reorder of a frame is written
\* to the store, where the Reorders of the frames below it already are
WriteValue(written, c) == written \cup {c}

RECURSIVE rebase(_, _, _, _, _)
rebase(onto, date, commit, forkPoint, failAt) ==
    IF commit = forkPoint
    THEN RebaseResult("", AtForkPoint(onto, commit), {})
    ELSE IF Len(commit.parents) = 0
    THEN RebaseResult("basis", NoCommit, {})
    ELSE LET oldBasis == Basis(commit)
             nb       == rebase(onto, date, oldBasis, forkPoint, failAt)
             target   == ReplayTarget(commit)
             r        == execImpl(ReplayBasis(onto, nb.commit), target.name, target.args,
                                  Cardinality(nb.written) + 1 # failAt)
             newCommit == makeReorder(nb.commit, ReorderDate(date, commit),
                                      ReorderSubject(commit, target), r.data, r.checksum)
         IN  IF nb.err # "" THEN RebaseResult(nb.err, NoCommit, nb.written)
             ELSE IF SameBasis(nb.commit, oldBasis)
                  THEN RebaseResult("", commit, nb.written)
             ELSE IF ReplayFailed(r) THEN RebaseResult("exec", NoCommit, nb.written)
             ELSE RebaseResult("", newCommit, WriteValue(nb.written, newCommit))

\* the internal transactions a test history is written with
ReplayCalls ==
    {[name |-> ".putValue", args |-> PutArgs("a", FromJSON("\"x\""))],
     [name |-> ".putValue", args |-> PutArgs("b", FromJSON("7"))],
     [name |-> ".delValue", args |-> DelArgs("a")]}

\* a Tx commit written on any commit of the store (the tx helper of the test)
WriteTx(basis, call, date) ==
    /\ LET r == execImpl(basis, call.name, call.args, TRUE)
       IN  store' = store \cup
              {makeTx(basis, date, call.name, call.args, r.data, r.checksum)}
    /\ UNCHANGED <<local, remote, head, syncing, pc, gen, pulls, last, rb, idvars, pulledID, progvars>>

ReorderCount == Cardinality({c \in store : c.type = "Reorder"})

\* [mutant] rebase makes the commit it returns the head of the database
HeadAfterRebaseIsResult(h, rebased) == rebased

\* db.head after a call of rebase: rebase returns the rebased commit to its
\* caller and assigns neither db.head nor a dataset
HeadAfterRebase(h, rebased) == h

\* [mutant] without a common ancestor the root of commit is the fork point
commonAncestorOrRoot(onto, commit) ==
    IF CommonAncestors(onto, commit) = {}
    THEN {FirstParents(commit)[Len(FirstParents(commit))]}
    ELSE CommonAncestors(onto, commit)

\* commonAncestor: the fork points FindCommonAncestor may return; none is
\* the no-common-ancestor error
commonAncestor(onto, commit) == CommonAncestors(onto, commit)

\* a call rebase(db, onto, date, commit, types.Ref{}); any one of the
\* executions the call makes may fail
Rebase(onto, commit, date) ==
    /\ ReorderCount < MaxReorders
    /\ \/ /\ commonAncestor(onto, commit) = {}
          /\ rb' = [called |-> TRUE, onto |-> onto, commit |-> commit, date |-> date,
                    forkPoint |-> commit, err |-> "ancestor", result |-> NoCommit,
                    written |-> {}, created |-> {}, failAt |-> 0]
          /\ UNCHANGED <<store, head>>
       \/ \E forkPoint \in commonAncestor(onto, commit) :
          \E failAt \in 0..Cardinality(rebase(onto, date, commit, forkPoint, 0).written) :
            LET r == rebase(onto, date, commit, forkPoint, failAt)
            IN  /\ rb' = [called |-> TRUE, onto |-> onto, commit |-> commit,
                          date |-> date, forkPoint |-> forkPoint, err |-> r.err,
                          result |-> r.commit, written |-> r.written,
                          created |-> r.written \ store, failAt |-> failAt]
                /\ store' = store \cup r.written
                /\ head' = HeadAfterRebase(head, r.commit)
    /\ UNCHANGED <<local, remote, syncing, pc, gen, pulls, last, idvars, pulledID, progvars>>

\* noms.SetHead(noms.GetDataset(LOCAL_DATASET), c.Ref()) followed by db.Reload()
SetLocal(c) ==
    /\ local' = <<c>>
    /\ head' = c
    /\ UNCHANGED <<store, remote, syncing, pc, gen, pulls, last, rb, idvars, pulledID, progvars>>

NextRebase ==
    \/ \E basis \in store, call \in ReplayCalls, d \in TxDates :
          TxCount < MaxForkTx /\ WriteTx(basis, call, d)
    \/ \E onto \in store, commit \in store, d \in Dates : Rebase(onto, commit, d)

SpecRebase == Init /\ [][NextRebase]_vars

\* the internal transactions the history of a moved local dataset is written with
HeadCalls == {c \in ReplayCalls : c.args.key = "a"}

\* rebase of the head of a database whose local dataset was moved
NextRebaseHead ==
    \/ \E basis \in store, call \in HeadCalls, d \in TxDates :
          TxCount < MaxHeadTx /\ WriteTx(basis, call, d)
    \/ \E c \in store : SetLocal(c)
    \/ \E onto \in store, d \in Dates : Rebase(onto, head, d)

SpecRebaseHead == Init /\ [][NextRebaseHead]_vars

(***************************************************************************)
(* A value store and the handles opened on it (db.Load).  The variables    *)
(* head and clientID are those of the handle loaded last; another handle   *)
(* on the same store is seen by what it writes to the store.               *)
(***************************************************************************)
\* a value store nothing was written to, and no handle
InitStore ==
    /\ store = {}
    /\ local = <<>>
    /\ remote = <<>>
    /\ head = NoCommit
    /\ syncing = 0
    /\ pc = [c \in Callers |-> "idle"]
    /\ gen = [c \in Callers |-> GenesisCommit]
    /\ pulls = 0
    /\ last = NoOp
    /\ rb = NoRebase
    /\ clientID = ""
    /\ storedID = ""
    /\ pulledID = ""
    /\ InitProgress

\* a handle was loaded
Loaded == head.type # "Zero"

\* [mutant] init never finds a head in the local dataset
HasHeadNever(ds) == FALSE

\* ds.HasHead()
HasHead(ds) == ds # <<>>

\* [mutant] a client ID is generated whether or not the store has one
initClientIDAlwaysNew(stored, fresh) == fresh

\* initClientID: the client ID of the store, generated and persisted when
\* the store has none
initClientID(stored, fresh) == IF stored = "" THEN fresh ELSE stored

\* db.Load: New on the store, and init of the new handle; `fresh` is the ID
\* initClientID generates when it needs one
Load(fresh) ==
    /\ LET cid == initClientID(storedID, fresh)
       IN  /\ storedID' = cid
           /\ IF ~HasHead(local)
              THEN /\ store' = store \cup {GenesisCommit}
                   /\ IF CanFastForward(local, GenesisCommit)
                      THEN /\ local' = <<GenesisCommit>>
                           /\ head' = GenesisCommit
                           /\ clientID' = cid
                           /\ last' = [NoOp EXCEPT !.op = "Load", !.result = "ok"]
                      ELSE /\ last' = [NoOp EXCEPT !.op = "Load", !.result = "error"]
                           /\ UNCHANGED <<local, head, clientID>>
              ELSE /\ head' = local[1]
                   /\ clientID' = cid
                   /\ last' = [NoOp EXCEPT !.op = "Load", !.result = "ok"]
                   /\ UNCHANGED <<store, local>>
    /\ UNCHANGED <<remote, syncing, pc, gen, pulls, rb, pulledID, progvars>>

\* the internal transactions another handle writes
OtherCalls == ReplayCalls

\* Put or Del through another handle, loaded from the store as it is: its
\* head is the head of the local dataset, so its fast-forward succeeds
OtherWrite(call, date) ==
    /\ HasHead(local)
    /\ LET basis  == TxBasis(local[1])
           r      == execImpl(basis, call.name, call.args, TRUE)
           commit == makeTx(basis, date, call.name, call.args, r.data, r.checksum)
       IN  /\ store' = store \cup {commit}
           /\ local' = <<commit>>
    /\ UNCHANGED <<remote, head, syncing, pc, gen, pulls, last, rb, idvars, pulledID, progvars>>

\* internal functions that meet no case of the switch in execImpl
NoWriteFunctions == {".read"}

\* a transaction that makes no mutating call, run by execInternal
ReadTx(function, date) ==
    /\ execInternal(function, NoArgs, date, TRUE,
                    [NoOp EXCEPT !.op = "Exec", !.key = function], "error")
    /\ UNCHANGED <<remote, syncing, pc, gen, pulls, rb, idvars, pulledID, progvars>>

NextDB ==
    \/ \E fresh \in ClientIDs : Load(fresh)
    \/ \E k \in Keys, j \in RawJSON, d \in TxDates, e \in BOOLEAN :
          Loaded /\ TxCount < MaxDbTx /\ Put(k, j, d, e)
    \/ \E k \in Keys, d \in TxDates, e \in BOOLEAN :
          Loaded /\ TxCount < MaxDbTx /\ Del(k, d, e)
    \/ Loaded /\ Reload
    \/ \E call \in OtherCalls, d \in TxDates :
          TxCount < MaxDbTx /\ OtherWrite(call, d)
    \/ \E f \in NoWriteFunctions, d \in TxDates : Loaded /\ ReadTx(f, d)

SpecDB == InitStore /\ [][NextDB]_vars

\* the database under one RPC caller
Next ==
    \/ \E k \in Keys, j \in RawJSON, d \in TxDates, e \in BOOLEAN :
          TxCount < MaxTx /\ Put(k, j, d, e)
    \/ \E k \in Keys, d \in TxDates, e \in BOOLEAN :
          TxCount < MaxTx /\ Del(k, d, e)
    \/ Reload
    \/ Acquire("c1")
    \/ Enter("c1")
    \/ \E resp \in Responses(gen["c1"]) : Respond("c1", resp)
    \/ Finish("c1")

Spec == Init /\ [][Next]_vars

\* the API under concurrent RPC callers
NextAPI ==
    \/ \E k \in ApiKeys, j \in RawJSON, d \in TxDates, e \in BOOLEAN :
          TxCount < MaxApiTx /\ Put(k, j, d, e)
    \/ \E k \in ApiKeys, d \in TxDates, e \in BOOLEAN :
          TxCount < MaxApiTx /\ Del(k, d, e)
    \/ Reload
    \/ \E c \in Callers : Acquire(c)
    \/ \E c \in Callers : Enter(c)
    \/ \E c \in Callers : \E resp \in Responses(gen[c]) : Respond(c, resp)
    \/ \E c \in Callers : Finish(c)

SpecAPI == Init /\ [][NextAPI]_vars
(***************************************************************************)
(* Properties                                                              *)
(***************************************************************************)
\* the commits of the first-parent chain of c above its nearest Genesis,
\* basis first
RECURSIVE PendingChain(_)
PendingChain(c) ==
    IF c.type = "Genesis" THEN <<>> ELSE Append(PendingChain(c.parents[1]), c)

\* the transactions (name and args) a chain of commits stands for
Calls(chain) ==
    [i \in 1..Len(chain) |->
        [name |-> InitalCommit(chain[i]).name, args |-> InitalCommit(chain[i]).args]]

\* a map after a sequence of internal transactions, computed on the map alone
RECURSIVE ApplyCalls(_, _)
ApplyCalls(m, calls) ==
    IF calls = <<>> THEN m
    ELSE LET c == Head(calls)
         IN  ApplyCalls(IF c.name = ".putValue"
                        THEN [x \in (DOMAIN m) \cup {c.args.key} |->
                                IF x = c.args.key THEN c.args.value ELSE m[x]]
                        ELSE [x \in (DOMAIN m) \ {c.args.key} |-> m[x]],
                        Tail(calls))

PutStep == \E k \in Keys, j \in RawJSON, d \in TxDates, e \in BOOLEAN : Put(k, j, d, e)
DelStep == \E k \in Keys, d \in TxDates, e \in BOOLEAN : Del(k, d, e)
FinishStep == \E c \in Callers : Finish(c)

\* C1: a successful RequestSync yields a local head whose history replays
\* every transaction that was pending above the old genesis, in the same
\* order, on top of the new server genesis.
C1_PendingSurviveSync ==
    [][FinishStep =>
         /\ Calls(PendingChain(head')) = Calls(PendingChain(head))
         /\ findGenesis(head') = local[1]]_vars

\* a response on which RequestSync must return an error
BadResponse(genesis, resp) ==
    \/ resp.neterr
    \/ resp.status # StatusOK
    \/ ~resp.json
    \/ ApplyPatch(genesis.data, resp.patch).err
    \/ resp.checksum = MalformedChecksum
    \/ resp.checksum # Checksum(ApplyPatch(genesis.data, resp.patch).map)

\* C2: when RequestSync returns an error (network error, non-200 status, 403,
\* non-JSON or empty body, invalid patch, malformed or mismatching checksum)
\* the head, the local dataset and the remote dataset are what they were, and
\* the error is returned.
C2_FailedSyncChangesNothing ==
    [][\A c \in Callers :
         (pc[c] \in {"pulling", "pullingBad"} /\ pc'[c] # pc[c])
         => \/ /\ head' = head /\ local' = local /\ remote' = remote /\ store' = store
               /\ pc'[c] = "idle"
               /\ last'.op = "requestSync" /\ last'.result \in {"error", "badAuth"}
            \/ ~(\E resp \in Responses(gen[c]) :
                    BadResponse(gen[c], resp) /\ Respond(c, resp))]_vars

\* C2 witness: a patch was applied to a database with pending data, the
\* checksum did not match, and the sync returned the error.
C2_Witness ==
    /\ last.op = "requestSync" /\ last.result = "error" /\ last.raw = "checksum"
    /\ head.type = "Tx"

InRequestSync(c) == pc[c] \in {"pulling", "pullingBad", "installed", "installedBad"}

\* C3: a requestSync that finds another one holding the single-flight flag
\* fails at once, so at most one db.RequestSync is executing at any time.
C3_SingleFlight == Cardinality({c \in Callers : InRequestSync(c)}) <= 1

\* C4: once every requestSync that acquired the single-flight flag has
\* returned (by success, by an error, by a badAuth response) the flag is clear,
\* and a requestSync issued when no sync is running is not rejected.
C4_FlagReleased ==
    /\ (\A c \in Callers : pc[c] = "idle") => syncing = 0
    /\ (\A c \in Callers : pc[c] = "idle") /\ last.op = "requestSync"
          => last.result # "panic"

\* C4 witness: a sync returned with an error, no sync is running, the flag is clear
C4_Witness ==
    /\ last.op = "requestSync" /\ last.result \in {"error", "badAuth"}
    /\ \A c \in Callers : pc[c] = "idle"
    /\ syncing = 0

\* C5: every successful Put or Del moves the head to a new Tx commit whose
\* only parent is the head from before the call, and outside the head
\* installation of a sync the local dataset only moves to a descendant of
\* its head.
C5_FastForwardOnly ==
    [][/\ (last'.result = "ok" /\ last'.op \in {"Put", "Del"} /\ (PutStep \/ DelStep))
            => /\ head'.type = "Tx" /\ head'.parents = <<head>>
               /\ head' # head /\ local' = <<head'>>
       /\ (local' # local /\ ~(\E c \in Callers : pc[c] # pc'[c] /\
                                  \E resp \in Responses(gen[c]) : Respond(c, resp)))
            => local[1] \in Ancestors(local'[1])]_vars

\* C5 witness: a Put committed on top of an earlier Tx commit
C5_Witness ==
    /\ last.op = "Put" /\ last.result = "ok"
    /\ head.type = "Tx" /\ head.parents[1].type = "Tx" /\ local = <<head>>

\* C6: a Put or Del that fails (malformed JSON, editor error, failed
\* fast-forward) leaves the in-memory head and the local dataset unchanged and
\* does not report success.
C6_FailedWriteChangesNothing ==
    [][/\ (\E k \in Keys, j \in RawJSON, d \in TxDates, e \in BOOLEAN :
             /\ last'.op = "Put"
             /\ (Canonicalize(j) = BadJSON \/ ~e \/ local[1] \notin Ancestors(head))
             /\ Put(k, j, d, e))
          => head' = head /\ local' = local /\ last'.result = "error"
       /\ (\E k \in Keys, d \in TxDates, e \in BOOLEAN :
             /\ last'.op = "Del"
             /\ (~e \/ local[1] \notin Ancestors(head))
             /\ Del(k, d, e))
          => head' = head /\ local' = local /\ last'.result = "panic"]_vars

\* C6 witness: a Put failed at the fast-forward, while a sync had already set
\* the local dataset to its new genesis
C6_Witness ==
    /\ last.op = "Put" /\ last.result = "error"
    /\ local[1] \notin Ancestors(head)

\* the keys no .putValue transaction and no pulled genesis of the store names
NeverWritten(k) ==
    \A c \in store :
        /\ ~(c.type = "Tx" /\ c.name = ".putValue" /\ c.args.key = k)
        /\ ~(c.type = "Genesis" /\ k \in DOMAIN c.data)

\* C7: after a successful Put(k, v) of canonical JSON v, Get(k) returns v and
\* Has(k) is true, on the handle and on a handle loaded from the store; Get of
\* a key never written returns absent and Has returns false.
C7_PutGetRoundTrip ==
    [][/\ \A k \in Keys, j \in CanonicalJSON :
            (/\ last'.op = "Put" /\ last'.result = "ok"
             /\ \E d \in TxDates, e \in BOOLEAN : Put(k, j, d, e))
            => /\ Has(head', k) /\ Get(head', k) = j
               /\ Has(local'[1], k) /\ Get(local'[1], k) = j
       /\ \A k \in Keys : NeverWritten(k) => ~Has(head, k) /\ Get(head, k) = Absent]_vars

\* C7 witness: a Put of canonical JSON returned and the key is read back
C7_Witness ==
    /\ last.op = "Put" /\ last.result = "ok" /\ last.raw \in CanonicalJSON
    /\ Get(head, last.key) = last.raw
    /\ \E k \in Keys : NeverWritten(k)

\* C8: Del(k) returns true exactly when k was in the head map before the call;
\* after it Has(k) is false; a second consecutive Del(k) returns false.
C8_DelReportsPresence ==
    [][\A k \in Keys :
         (/\ last'.op = "Del" /\ last'.result = "ok"
          /\ \E d \in TxDates, e \in BOOLEAN : Del(k, d, e))
         => /\ last'.ok = Has(head, k)
            /\ ~Has(head', k)
            /\ (last.op = "Del" /\ last.result = "ok" /\ last.key = k) => ~last'.ok]_vars

\* C8 witness: a Del of a present key returned true
C8_Witness == last.op = "Del" /\ last.result = "ok" /\ last.ok

\* the commits of the first-parent chain of c above `base`, basis first
RECURSIVE ChainAbove(_, _)
ChainAbove(c, base) ==
    IF c = base \/ Len(c.parents) = 0 THEN <<>>
    ELSE Append(ChainAbove(c.parents[1], base), c)

OnFirstParents(c, base) ==
    \E i \in 1..Len(FirstParents(c)) : FirstParents(c)[i] = base

\* the last call of rebase was given a linear chain of Tx commits above the
\* fork point and an `onto` that left the fork point
DivergedTxChain ==
    /\ rb.called
    /\ rb.onto # rb.forkPoint /\ rb.commit # rb.forkPoint
    /\ OnFirstParents(rb.commit, rb.forkPoint)
    /\ \A i \in 1..Len(ChainAbove(rb.commit, rb.forkPoint)) :
          ChainAbove(rb.commit, rb.forkPoint)[i].type = "Tx"

\* C9: rebase of a linear chain of n Tx commits above the fork point onto a
\* commit that diverged returns, when it succeeds, the head of a chain of n new
\* commits above onto, with the names and args of the chain in the same
\* order, and whose map is the n transactions applied in order to onto's map.
C9_RebaseReplaysChain ==
    (DivergedTxChain /\ rb.err = "") =>
        LET old == ChainAbove(rb.commit, rb.forkPoint)
            new == ChainAbove(rb.result, rb.onto)
        IN  /\ OnFirstParents(rb.result, rb.onto)
            /\ Len(new) = Len(old)
            /\ \A i \in 1..Len(new) : new[i].type = "Reorder" /\ new[i] \in rb.written
            /\ Cardinality(rb.written) = Len(old)
            /\ Calls(new) = [i \in 1..Len(old) |->
                               [name |-> old[i].name, args |-> old[i].args]]
            /\ rb.result.data = ApplyCalls(rb.onto.data, Calls(old))

\* C9 witness: a chain of two Tx commits whose order matters was rebased
C9_Witness ==
    /\ DivergedTxChain /\ rb.err = ""
    /\ Len(ChainAbove(rb.commit, rb.forkPoint)) = 2
    /\ rb.result.data # rb.commit.data
    /\ rb.result.data # rb.onto.data

\* C10: when commit is an ancestor of onto, or onto itself, rebase returns
\* the commit onto refers to and writes no commit.
C10_SourceFastForward ==
    (rb.called /\ rb.commit \in Ancestors(rb.onto)) =>
        /\ rb.err = "" /\ rb.result = rb.onto
        /\ rb.written = {} /\ rb.created = {}
        /\ rb.forkPoint = rb.commit

\* C10 witness: rebase was given a commit two commits below onto
C10_Witness ==
    /\ rb.called /\ rb.commit \in Ancestors(rb.onto)
    /\ rb.commit # rb.onto /\ rb.onto.parents[1] # rb.commit
    /\ rb.result = rb.onto

\* C11 as claimed: when onto is an ancestor of commit, through basis or
\* subject links, rebase returns commit itself and writes no commit.
C11_DestFastForward ==
    (rb.called /\ rb.onto \in Ancestors(rb.commit)) =>
        /\ rb.err = "" /\ rb.result = rb.commit
        /\ rb.written = {}

\* C11 amended: when onto is on the basis (first-parent) chain of commit,
\* rebase returns commit itself and writes no commit, also when the local
\* dataset head is ahead of onto.
C11_DestFastForwardOnBasisChain ==
    (rb.called /\ OnFirstParents(rb.commit, rb.onto)) =>
        /\ rb.err = "" /\ rb.result = rb.commit
        /\ rb.written = {} /\ rb.created = {}
        /\ rb.forkPoint = rb.onto

\* C11 witness: the head, two commits above onto, was rebased onto it while
\* the local dataset head was ahead of onto
C11_Witness ==
    /\ rb.called /\ OnFirstParents(rb.commit, rb.onto)
    /\ rb.commit # rb.onto /\ Basis(rb.commit) # rb.onto
    /\ local[1] # rb.onto /\ rb.onto \in Ancestors(local[1])
    /\ rb.result = rb.commit

\* C12: every commit rebase creates is a Reorder whose basis is the rebased
\* form of the basis of the commit it replays (onto for the commit right
\* above the fork point, else the Reorder made for that basis), whose subject
\* is the commit replayed, which stays reachable from the result, and whose
\* date is the one date given to the call.
C12_ReorderShape ==
    rb.called =>
        \A c \in rb.written :
            /\ c.type = "Reorder" /\ Len(c.parents) = 2
            /\ c.date = rb.date
            /\ c.parents[2] \in store
            /\ c.parents[2] # rb.forkPoint
            /\ OnFirstParents(rb.commit, c.parents[2])
            /\ \/ Basis(c.parents[2]) = rb.forkPoint /\ Basis(c) = rb.onto
               \/ /\ Basis(c.parents[2]) # rb.forkPoint
                  /\ Basis(c) \in rb.written
                  /\ Basis(c).parents[2] = Basis(c.parents[2])
            /\ rb.err = "" => c.parents[2] \in Ancestors(rb.result)

\* C12 witness: a rebase made two Reorder commits of Tx commits of another date
C12_Witness ==
    /\ rb.called /\ rb.err = ""
    /\ Cardinality(rb.written) = 2
    /\ \A c \in rb.written : c.parents[2].type = "Tx" /\ c.parents[2].date # rb.date

\* the last call of rebase replayed the chain of commit above the fork point
\* on an onto that left the fork point
Replayed ==
    /\ rb.called /\ rb.err = ""
    /\ rb.onto # rb.forkPoint /\ rb.commit # rb.forkPoint
    /\ OnFirstParents(rb.commit, rb.forkPoint)

C14_FailedRebaseInstallsNothing ==
    [][(rb' # rb /\ rb'.called /\ rb'.failAt # 0)
         => /\ rb'.err = "exec" /\ rb'.result = NoCommit
            /\ head' = head /\ local' = local /\ remote' = remote
            /\ \A c \in rb'.written :
                  /\ c \notin Ancestors(head')
                  /\ \A i \in 1..Len(local') : c \notin Ancestors(local'[i])
                  /\ \A i \in 1..Len(remote') : c \notin Ancestors(remote'[i])]_vars

\* C14 witness: the second re-execution of the rebase of a moved head failed,
\* after the Reorder of the first commit of the chain was written
C14_Witness ==
    /\ rb.called /\ rb.err = "exec" /\ rb.failAt = 2
    /\ rb.created # {} /\ rb.created \subseteq store
    /\ local[1] = rb.commit /\ local[1] # GenesisCommit

\* a step in which the RequestSync of caller c sets the local dataset
Installs(c) == pc[c] = "pulling" /\ pc'[c] = "installed"

C16_RemoteIsPulledGenesis ==
    [][\A c \in Callers :
         /\ (pc[c] = "installed" /\ pc'[c] = "idle")
               => /\ remote' = <<findGenesis(head')>>
                  /\ RemoteHead' = findGenesis(head')
                  /\ RemoteHead'.serverStateID \in StateIDs
         /\ (pc[c] = "installed" /\ pc'[c] = "installed")
               => UNCHANGED <<store, local, remote, head, last>>]_vars

\* a response that is well formed up to its checksum: status 200, a JSON
\* body and a patch that applies
ChecksumDecides(genesis, resp) ==
    /\ ~resp.neterr /\ resp.status = StatusOK /\ resp.json
    /\ ~ApplyPatch(genesis.data, resp.patch).err

\* a response whose checksum is malformed or is not that of the patched map
ChecksumFails(genesis, resp) ==
    /\ ChecksumDecides(genesis, resp)
    /\ \/ resp.checksum = MalformedChecksum
       \/ resp.checksum # Checksum(ApplyPatch(genesis.data, resp.patch).map)

\* C17: RequestSync never installs a head whose map checksum differs from
\* the checksum of the response: when the checksum of the patched map is not
\* the checksum of the response, or that checksum is malformed, the call
\* fails with a checksum error, a call that fails so has written no dataset,
\* and a head that is installed has the checksum of the response.
C17_ChecksumGuardsInstall ==
    /\ [](\A c \in Callers :
            pc[c] = "pulling" =>
               \A resp \in Responses(gen[c]) :
                  ChecksumFails(gen[c], resp) => Pull(gen[c], resp).err = "checksum")
    /\ [][\A c \in Callers :
            /\ (pc[c] = "pulling" /\ pc'[c] = "idle" /\ last'.raw = "checksum")
                  => /\ last'.op = "requestSync" /\ last'.result = "error"
                     /\ UNCHANGED <<store, local, remote, head>>
            /\ Installs(c)
                  => \A resp \in Responses(gen[c]) :
                        Respond(c, resp) =>
                           /\ ~ChecksumFails(gen[c], resp)
                           /\ Checksum(local'[1].data) = resp.checksum
                           /\ local'[1].checksum = resp.checksum]_vars

\* C17 witness: after a first pull was installed, a second pull failed on its
\* checksum and the head is still the Genesis of the first
C17_Witness ==
    /\ last.op = "requestSync" /\ last.result = "error" /\ last.raw = "checksum"
    /\ head.type = "Genesis" /\ head.serverStateID \in StateIDs
    /\ local = <<head>>

\* the map the claim gives a patch: the operations after a leading clear-all
\* applied in order to the empty map, else all of them applied to `base`
PatchedAsClaimed(base, patch) ==
    IF patch # <<>> /\ IsClearAll(Head(patch))
    THEN ApplyOps([err |-> FALSE, map |-> EmptyMap], Tail(patch)).map
    ELSE ApplyOps([err |-> FALSE, map |-> base], patch).map

\* C18: the map a pull produces is the remaining operations applied in order
\* to the empty map when the first operation is the clear-all, and otherwise
\* the operations applied to the data of the nearest Genesis of the head (not
\* to the data of the head with its pending changes); the Genesis a pull
\* installs has that map.
C18_PatchBase ==
    /\ [](\A c \in Callers :
            pc[c] = "pulling" =>
               \A resp \in Responses(gen[c]) :
                  ChecksumDecides(gen[c], resp) =>
                     ApplyPatch(gen[c].data, resp.patch).map =
                        PatchedAsClaimed(findGenesis(head).data, resp.patch))
    /\ [][\A c \in Callers :
            Installs(c) =>
               \A resp \in Responses(gen[c]) :
                  Respond(c, resp) =>
                     local'[1].data =
                        PatchedAsClaimed(findGenesis(head).data, resp.patch)]_vars

\* an add or a remove under /u/<key>
SupportedOp(o) == o.op \in {"add", "remove"} /\ Len(o.path) = 2 /\ o.path[1] = "u"

\* a patch with an operation that is not supported, a clear-all that is not
\* the first operation included
HasUnsupportedOp(patch) ==
    \E i \in 1..Len(patch) :
        ~SupportedOp(patch[i]) /\ ~(i = 1 /\ IsClearAll(patch[i]))

Installing(c) == pc[c] \in {"installed", "installedBad"}

\* C21: every public method of the database holds the database mutex for
\* the whole time it reads or writes the head: while a RequestSync is between
\* its write of the local dataset and its load of the head from it, no Put,
\* Del or Reload runs, so none observes or overwrites the head in between.
C21_HeadUnderMutex ==
    [][\A c \in Callers :
         (Installing(c) /\ Installing(c)')
            => /\ ~(PutStep \/ DelStep \/ Reload)
               /\ head' = head]_vars

\* C22: a Put or Del issued while RequestSync waits for its response is not
\* held back by the sync and commits a Tx on top of the head, and the
\* transaction of that Tx is still in the history of the local dataset after
\* the sync has set its new head.
C22_WriteDuringPullSurvives ==
    [][/\ (InPull /\ last'.op \in {"Put", "Del"})
            => /\ \A k \in Keys, j \in CanonicalJSON, d \in TxDates :
                     Put(k, j, d, TRUE)
                        => /\ last'.result = "ok" /\ last'.inPull
                           /\ head'.type = "Tx" /\ head'.parents = <<head>>
               /\ \A k \in Keys, d \in TxDates :
                     Del(k, d, TRUE)
                        => /\ last'.result = "ok" /\ last'.inPull
                           /\ head'.type = "Tx" /\ head'.parents = <<head>>
       /\ \A c \in Callers :
            (Installs(c) /\ last.inPull /\ last.result = "ok")
               => \E x \in Ancestors(local'[1]) : InitalCommit(x) = head]_vars

\* the local dataset holds the commit of another writer that started from
\* the head of this handle
OtherWriterFirst ==
    /\ Loaded /\ HasHead(local)
    /\ local[1] # head /\ local[1].type = "Tx" /\ local[1].parents = <<head>>

\* C23: when two writers start from the same head and both commit, the
\* first commit succeeds and the second, of another transaction, fails with
\* an error (the fast-forward was raced), returns no commit, and leaves the
\* local dataset at the commit of the first writer.
C23_SecondWriterRaced ==
    [][(OtherWriterFirst /\ last'.op \in {"Put", "Del"})
         => /\ \A k \in Keys, j \in CanonicalJSON, d \in TxDates :
                  (/\ Put(k, j, d, TRUE)
                   /\ ~(/\ local[1].name = ".putValue"
                        /\ local[1].args = PutArgs(k, FromJSON(j))
                        /\ local[1].date = d))
                  => /\ last'.result = "error"
                     /\ local' = local /\ head' = head
            /\ \A k \in Keys, d \in TxDates :
                  (/\ Del(k, d, TRUE)
                   /\ ~(/\ local[1].name = ".delValue"
                        /\ local[1].args = DelArgs(k)
                        /\ local[1].date = d))
                  => /\ last'.result = "error"
                     /\ local' = local /\ head' = head]_vars

\* C24: along the first-parent chain of the head of the local dataset
\* lastMutationID never decreases: a Genesis has 0, a Tx has the value of its
\* basis plus one, a Reorder has the value of its basis.
C24_MutationIDMonotone ==
    HasHead(local) =>
        \A i \in 1..Len(FirstParents(local[1])) :
            LET c == FirstParents(local[1])[i]
            IN  /\ c.type = "Genesis" => c.lastMutationID = 0
                /\ c.type = "Tx" => c.lastMutationID = Basis(c).lastMutationID + 1
                /\ c.type = "Reorder" => c.lastMutationID = Basis(c).lastMutationID
                /\ Len(c.parents) > 0 => Basis(c).lastMutationID <= c.lastMutationID

\* C24 witness: the local head is a Reorder above two Tx commits, and its
\* subject has another lastMutationID than its basis
C24_Witness ==
    /\ HasHead(local) /\ local[1].type = "Reorder"
    /\ Basis(local[1]).type = "Tx" /\ Basis(local[1]).lastMutationID = 2
    /\ local[1].lastMutationID = 2
    /\ local[1].parents[2].lastMutationID = 1

\* C25: in every reachable state every commit of the store (written by
\* load, Put, Del, rebase or RequestSync) records as its checksum the
\* checksum of its map.
C25_ChecksumOfData ==
    \A c \in store : c.checksum = Checksum(c.data)

\* C25 witness: on a pulled Genesis with data a Put replaced the value of a
\* key and a Del removed a key, and both Tx commits are in the store
C25_Witness ==
    /\ \E c \in store :
          /\ c.type = "Tx" /\ c.name = ".putValue"
          /\ findGenesis(c).serverStateID \in StateIDs
          /\ c.args.key \in DOMAIN Basis(c).data
          /\ Basis(c).data[c.args.key] # c.args.value
    /\ \E c \in store :
          /\ c.type = "Tx" /\ c.name = ".delValue"
          /\ c.args.key \in DOMAIN Basis(c).data

\* the map an editor builds from the empty map by setting each entry of m once
RECURSIVE BuildFromScratch(_, _)
BuildFromScratch(m, ks) ==
    IF ks = {} THEN NewMap
    ELSE LET k == CHOOSE x \in ks : TRUE
         IN  EditorSet(BuildFromScratch(m, ks \ {k}), k, m[k])

\* C26: after any sequence of Put and Del from the empty Genesis the checksum
\* recorded on the head is the checksum of a map built from scratch with the
\* head's entries, and two commits with the same entries record the same
\* checksum whatever the edits that led to them.
C26_ChecksumOfFinalSet ==
    /\ Loaded =>
          head.checksum = BuildFromScratch(head.data, DOMAIN head.data).sum
    /\ \A c1, c2 \in store : c1.data = c2.data => c1.checksum = c2.checksum

\* C26 witness: the head has the entries of an earlier commit again, after a
\* Put that replaced a value or a Del that removed a key in between
C26_Witness ==
    /\ Loaded /\ head.type = "Tx" /\ head.data # EmptyMap
    /\ \E c, d \in store :
          /\ c.data = head.data /\ d.data # head.data
          /\ Height(c) < Height(d) /\ Height(d) < Height(head)

LoadStep == \E fresh \in ClientIDs : Load(fresh)

\* C27: loading a store without a local head creates the Genesis head with
\* the empty map, the checksum of the empty map, no server state ID and
\* lastMutationID 0, and a client ID that is not empty; loading or reloading
\* the store again gives the head of the local dataset and the client ID of
\* the store, and replaces neither.
C27_LoadIdempotent ==
    [][/\ LoadStep =>
            /\ last'.result = "ok"
            /\ clientID' # "" /\ clientID' = storedID'
            /\ IF local = <<>>
               THEN /\ head'.type = "Genesis" /\ head'.parents = <<>>
                    /\ head'.data = EmptyMap
                    /\ head'.checksum = Checksum(EmptyMap)
                    /\ head'.serverStateID = ""
                    /\ head'.lastMutationID = 0
                    /\ local' = <<head'>>
               ELSE /\ local' = local /\ store' = store
                    /\ head' = local[1]
                    /\ storedID' = storedID
                    /\ Loaded => clientID' = clientID
                    /\ (Loaded /\ head = local[1]) => head' = head
       /\ (last'.op = "Reload" /\ Reload) =>
            /\ local' = local /\ store' = store
            /\ head' = local[1]
            /\ clientID' = clientID /\ storedID' = storedID
            /\ head = local[1] => head' = head
      ]_vars

\* C27 witness: a store whose head is a Tx commit was loaded again, and the
\* handle has the head and the client ID of the store
C27_Witness ==
    /\ last.op = "Load" /\ last.result = "ok"
    /\ head.type = "Tx" /\ head = local[1]
    /\ clientID # "" /\ clientID = storedID

ReadStep == \E f \in NoWriteFunctions, d \in TxDates : ReadTx(f, d)

ScanKeys == {"a", "ab", "b"}
\* the strings a scan request gives as prefix and as start
ScanStrings == {""} \cup ScanKeys

\* the bytes of a string
Bytes(s) ==
    CASE s = ""   -> <<>>
      [] s = "a"  -> <<1>>
      [] s = "ab" -> <<1, 2>>
      [] s = "b"  -> <<2>>

\* strings.HasPrefix
HasPrefix(s, p) ==
    /\ Len(Bytes(p)) <= Len(Bytes(s))
    /\ SubSeq(Bytes(s), 1, Len(Bytes(p))) = Bytes(p)

\* the order of the keys of a map: bytewise, a proper prefix first
KeyLess(x, y) ==
    LET bx == Bytes(x)
        by == Bytes(y)
    IN  \E i \in 1..Len(by) :
           /\ \A j \in 1..(i - 1) : j <= Len(bx) /\ bx[j] = by[j]
           /\ \/ i = Len(bx) + 1
              \/ i <= Len(bx) /\ bx[i] < by[i]

\* the keys of a map in the order its iterator gives them
RECURSIVE SortedKeys(_)
SortedKeys(ks) ==
    IF ks = {} THEN <<>>
    ELSE LET m == CHOOSE x \in ks : \A y \in ks \ {x} : KeyLess(x, y)
         IN  <<m>> \o SortedKeys(ks \ {m})

\* the position of the first key that is not less than k
IteratorFrom(keys, k) ==
    LET at == {i \in 1..Len(keys) : ~KeyLess(keys[i], k)}
    IN  IF at = {} THEN Len(keys) + 1
        ELSE CHOOSE i \in at : \A j \in at : i <= j

\* [mutant] a scan that begins at the start key although it is exclusive
ScanStartInclusive(keys, opts) == IteratorFrom(keys, opts.start)

\* the position a scan begins at: the first key >= start.id.value, and the
\* one after it when that key is the start key and the bound is exclusive
ScanStart(keys, opts) ==
    LET i == IteratorFrom(keys, opts.start)
    IN  IF opts.exclusive /\ i <= Len(keys) /\ keys[i] = opts.start
        THEN i + 1 ELSE i

\* DB.Scan: from the start position on, the entries whose key has the prefix,
\* cut to the limit
Scan(c, opts) ==
    LET keys     == SortedKeys(DOMAIN c.data)
        rest     == SubSeq(keys, ScanStart(keys, opts), Len(keys))
        HasIt(k) == HasPrefix(k, opts.prefix)
        filtered == SelectSeq(rest, HasIt)
        limited  == IF opts.limit = 0 \/ Len(filtered) <= opts.limit
                    THEN filtered ELSE SubSeq(filtered, 1, opts.limit)
    IN  [i \in 1..Len(limited) |->
            [id |-> limited[i], value |-> ToJSON(c.data[limited[i]])]]

\* DB.Hash: the hash of the head commit; commits are identified by content
Hash(c) == c

\* the value field of a put request: absent, null, or a JSON value
Missing == "!missing"
Null == "null"
RpcValues == {Missing, Null, "7"}
ScanLimits == {0, 1}
ScanOptionsSet ==
    [prefix : ScanStrings, start : ScanStrings, exclusive : BOOLEAN,
     limit : ScanLimits]

\* request bytes that fail to parse: the request struct keeps its zero values
BadRequest ==
    [parses |-> FALSE, id |-> "", value |-> Missing, opts |-> NoScanOptions]
Request(id, value, opts) ==
    [parses |-> TRUE, id |-> id, value |-> value, opts |-> opts]

Requests(name) ==
    {BadRequest} \cup
    CASE name = "getRoot" -> {Request("", Missing, NoScanOptions)}
      [] name \in {"has", "get", "del"} ->
            {Request(k, Missing, NoScanOptions) : k \in ScanKeys}
      [] name = "scan" ->
            {Request("", Missing, o) : o \in ScanOptionsSet}
      [] name = "put" ->
            {Request(k, v, NoScanOptions) : k \in ScanKeys, v \in RpcValues}

\* [mutant] the error of json.Unmarshal is dropped
UnmarshalFailedNever(req) == FALSE

\* json.Unmarshal of the request bytes returned an error
UnmarshalFailed(req) == ~req.parses

\* the error return of a dispatch function: no response, nothing changed
DispatchError(name) ==
    /\ last' = [NoOp EXCEPT !.op = name, !.result = "error"]
    /\ UNCHANGED <<store, local, head>>

\* a response of a dispatch function that reads
DispatchRead(response) ==
    /\ last' = response
    /\ UNCHANGED <<store, local, head>>

rpcframe == <<remote, syncing, pc, gen, pulls, rb, idvars, pulledID, progvars>>

dispatchGetRoot(req) ==
    /\ IF UnmarshalFailed(req) THEN DispatchError("getRoot")
       ELSE DispatchRead([NoOp EXCEPT !.op = "getRoot", !.result = "ok",
                                      !.root = Hash(head)])
    /\ UNCHANGED rpcframe

dispatchHas(req) ==
    /\ IF UnmarshalFailed(req) THEN DispatchError("has")
       ELSE DispatchRead([NoOp EXCEPT !.op = "has", !.result = "ok",
                                      !.key = req.id, !.ok = Has(head, req.id)])
    /\ UNCHANGED rpcframe

dispatchGet(req) ==
    /\ IF UnmarshalFailed(req) THEN DispatchError("get")
       ELSE DispatchRead([NoOp EXCEPT !.op = "get", !.result = "ok",
                                      !.key = req.id, !.ok = Has(head, req.id),
                                      !.raw = Get(head, req.id)])
    /\ UNCHANGED rpcframe

dispatchScan(req) ==
    /\ IF UnmarshalFailed(req) THEN DispatchError("scan")
       ELSE DispatchRead([NoOp EXCEPT !.op = "scan", !.result = "ok",
                                      !.opts = req.opts,
                                      !.items = Scan(head, req.opts)])
    /\ UNCHANGED rpcframe

dispatchPut(req, date, edOK) ==
    IF UnmarshalFailed(req)
    THEN DispatchError("put") /\ UNCHANGED rpcframe
    ELSE IF req.value \in {Missing, Null}
    THEN DispatchError("put") /\ UNCHANGED rpcframe
    ELSE Put(req.id, req.value, date, edOK)

dispatchDel(req, date, edOK) ==
    IF UnmarshalFailed(req)
    THEN DispatchError("del") /\ UNCHANGED rpcframe
    ELSE Del(req.id, date, edOK)

NextRPC ==
    \/ \E req \in Requests("getRoot") : dispatchGetRoot(req)
    \/ \E req \in Requests("has") : dispatchHas(req)
    \/ \E req \in Requests("get") : dispatchGet(req)
    \/ \E req \in Requests("scan") : dispatchScan(req)
    \/ \E req \in Requests("put"), d \in TxDates, e \in BOOLEAN :
          TxCount < MaxRpcTx /\ dispatchPut(req, d, e)
    \/ \E req \in Requests("del"), d \in TxDates, e \in BOOLEAN :
          TxCount < MaxRpcTx /\ dispatchDel(req, d, e)

SpecRPC == Init /\ [][NextRPC]_vars

\* the keys a scan with the options opts is to return when it has no limit
Matching(c, opts) ==
    {k \in DOMAIN c.data :
        /\ HasPrefix(k, opts.prefix)
        /\ IF opts.exclusive THEN KeyLess(opts.start, k)
           ELSE ~KeyLess(k, opts.start)}

\* C29: scan returns its items in strictly increasing order of the keys,
\* each key once and with the value of the head; without options these are
\* all keys, with a prefix the keys that start with it, with a start key k
\* the keys >= k, and the keys > k when the bound is exclusive.
C29_ScanOrderAndBounds ==
    (last.op = "scan" /\ last.result = "ok") =>
        LET items == last.items
            ids   == {items[i].id : i \in 1..Len(items)}
            all   == Matching(head, last.opts)
        IN  /\ \A i, j \in 1..Len(items) :
                  i < j => KeyLess(items[i].id, items[j].id)
            /\ \A i \in 1..Len(items) :
                  items[i].value = Get(head, items[i].id)
            /\ ids \subseteq all
            /\ last.opts.limit = 0 => ids = all
            /\ last.opts.limit > 0 =>
                  /\ Len(items) = IF Cardinality(all) < last.opts.limit
                                  THEN Cardinality(all) ELSE last.opts.limit
                  /\ \A k \in all \ ids : \A x \in ids : KeyLess(x, k)

\* C29 witness: a scan with the prefix "a" and an exclusive start key that is
\* in the map returned the one key after it
C29_Witness ==
    /\ last.op = "scan" /\ last.result = "ok"
    /\ last.opts = [prefix |-> "a", start |-> "a", exclusive |-> TRUE, limit |-> 0]
    /\ DOMAIN head.data = {"a", "ab"}
    /\ Len(last.items) = 1 /\ last.items[1].id = "ab"

\* a dispatch of request bytes that do not parse, or of a put request whose
\* value is absent or null
FailedRequestStep ==
    \/ dispatchGetRoot(BadRequest)
    \/ dispatchHas(BadRequest)
    \/ dispatchGet(BadRequest)
    \/ dispatchScan(BadRequest)
    \/ \E d \in TxDates, e \in BOOLEAN : dispatchPut(BadRequest, d, e)
    \/ \E d \in TxDates, e \in BOOLEAN : dispatchDel(BadRequest, d, e)
    \/ \E k \in ScanKeys, v \in {Missing, Null}, d \in TxDates, e \in BOOLEAN :
          dispatchPut(Request(k, v, NoScanOptions), d, e)

\* C30: an RPC whose request bytes do not parse, and a put whose value is
\* absent or null, returns an error and no response and leaves the root as it
\* was: getRoot returns the hash of the head, and the head after the failed
\* call is the head before it.
C30_FailedRequestKeepsRoot ==
    /\ []((last.op = "getRoot" /\ last.result = "ok") => last.root = Hash(head))
    /\ [][FailedRequestStep =>
             /\ last'.result = "error"
             /\ last'.items = <<>> /\ last'.root = NoCommit
             /\ Hash(head') = Hash(head)
             /\ local' = local /\ store' = store
         ]_vars

\* C30 witness: a put that the dispatcher refused, on a head written by an
\* earlier put or del
C30_Witness ==
    /\ last.op = "put" /\ last.result = "error"
    /\ head.type = "Tx" /\ head = local[1]

\* RequestSync of caller c finds its genesis and sends the pull request
SendsPull(c) == pc[c] = "acquired" /\ pc'[c] \in {"pulling", "pullingBad"}

\* C34: the pull request carries the state ID and the checksum of the nearest
\* Genesis on the first-parent chain of the head; its baseStateID is the state
\* ID the last pull that succeeded returned, "" when none did, whatever was
\* put or deleted since; and the walk always ends at a Genesis, so findGenesis
\* returns no error.
C34_PullFromNearestGenesis ==
    /\ [](HasGenesis(head))
    /\ [][\A c \in Callers : SendsPull(c) =>
             LET chain == FirstParents(head)
                 req   == PullRequest(gen'[c])
             IN  /\ \E i \in 1..Len(chain) :
                       /\ chain[i] = gen'[c] /\ chain[i].type = "Genesis"
                       /\ \A j \in 1..(i - 1) : chain[j].type # "Genesis"
                 /\ req.baseStateID = pulledID
                 /\ req.checksum = Checksum(gen'[c].data)
         ]_vars

\* C35: a call of rebase, whether it returns a commit or an error, leaves
\* the head of the database and the local and remote datasets as they were;
\* what it adds to the store are Reorder commits, the ones it made.
C35_RebaseFrame ==
    [][rb' # rb =>
          /\ head' = head /\ local' = local /\ remote' = remote
          /\ store \subseteq store'
          /\ store' \ store = rb'.created
          /\ \A c \in store' \ store : c.type = "Reorder"
          /\ rb'.err = "ancestor" => store' = store
      ]_vars

\* C35 witness: a rebase of the head that failed at its second execution
\* left its first Reorder in the store, and the head is still a Tx commit
C35_Witness ==
    /\ rb.called /\ rb.err = "exec" /\ rb.commit = head
    /\ rb.created # {} /\ rb.created \subseteq store
    /\ head.type = "Tx" /\ local = <<head>>

\* C36: every commit of the store has the parents of its type: a Genesis
\* none, a Tx its basis, a Reorder its new basis and then the commit it
\* replays, which is a Tx or a Reorder on another basis; and the store holds
\* every parent of its commits and the heads of the local and the remote
\* dataset.
C36_ParentsAndClosure ==
    /\ \A c \in store :
          /\ c.type \in {"Genesis", "Tx", "Reorder"}
          /\ c.type = "Genesis" => Len(c.parents) = 0
          /\ c.type = "Tx" => Len(c.parents) = 1
          /\ c.type = "Reorder" =>
                /\ Len(c.parents) = 2
                /\ c.parents[2].type \in {"Tx", "Reorder"}
                /\ InitalCommit(c).type = "Tx"
                /\ Basis(c.parents[2]) # c.parents[1]
          /\ \A i \in 1..Len(c.parents) : c.parents[i] \in store
    /\ local # <<>> => local[1] \in store
    /\ remote # <<>> => remote[1] \in store

\* C36 witness: the store holds a Reorder whose basis is a Reorder too, made
\* by a rebase of two commits, and the local dataset is at a Tx commit
C36_Witness ==
    /\ \E c \in store :
          /\ c.type = "Reorder" /\ c.parents[1].type = "Reorder"
          /\ c.parents[1] \in store /\ c.parents[2] \in store
    /\ local # <<>> /\ local[1].type = "Tx"

(***************************************************************************)
(* rebase in a store that a pull has written a new Genesis to: the pulled  *)
(* Genesis has no parent, and so no ancestor in common with the commits    *)
(* made before the pull.                                                   *)
(***************************************************************************)
\* the Genesis RequestSync writes for a response with an empty patch
PulledGenesis(stateID) ==
    Pull(GenesisCommit,
         Response(FALSE, StatusOK, TRUE, stateID, <<>>, Checksum(EmptyMap))).newHead

\* a fresh database after one requestSync that succeeded
InitPulled ==
    /\ store = {GenesisCommit, PulledGenesis("s1")}
    /\ local = <<PulledGenesis("s1")>>
    /\ remote = <<>>
    /\ head = PulledGenesis("s1")
    /\ syncing = 0
    /\ pc = [c \in Callers |-> "idle"]
    /\ gen = [c \in Callers |-> GenesisCommit]
    /\ pulls = 1
    /\ last = [SyncOp("c1") EXCEPT !.result = "ok"]
    /\ rb = NoRebase
    /\ clientID = FirstClientID
    /\ storedID = FirstClientID
    /\ pulledID = "s1"
    /\ InitProgress

NextRebasePulled ==
    \/ \E basis \in store, call \in HeadCalls, d \in TxDates :
          TxCount < MaxPulledTx /\ WriteTx(basis, call, d)
    \/ \E onto \in store, commit \in store, d \in Dates :
          ReorderCount < MaxPulledReorders /\ Rebase(onto, commit, d)

SpecRebasePulled == InitPulled /\ [][NextRebasePulled]_vars

\* the commits on the walk of rebase from c: c and its bases
OnBasisChain(x, c) == \E i \in 1..Len(FirstParents(c)) : FirstParents(c)[i] = x

\* C37: rebase of two commits without a common ancestor returns the
\* no-common-ancestor error and creates no commit; every call returns, and
\* when the fork point is not on the basis chain of the commit the walk ends
\* at the Genesis with an error and nothing created.
C37_NoAncestorAndTermination ==
    [][rb' # rb =>
          LET none == Ancestors(rb'.onto) \cap Ancestors(rb'.commit) = {}
          IN  /\ rb'.called
              /\ rb'.err \in {"", "ancestor", "basis", "exec"}
              /\ rb'.err = "ancestor" <=> none
              /\ none => /\ store' = store /\ rb'.created = {}
                         /\ rb'.result = NoCommit
              /\ (~none /\ ~OnBasisChain(rb'.forkPoint, rb'.commit)) =>
                     /\ rb'.err = "basis" /\ rb'.result = NoCommit
                     /\ store' = store
              /\ (~none /\ OnBasisChain(rb'.forkPoint, rb'.commit)) =>
                     rb'.err \in {"", "exec"}
      ]_vars

\* C37 witness: a Tx commit made before a pull was rebased onto the pulled
\* Genesis, and rebase returned the no-common-ancestor error
C37_Witness ==
    /\ rb.called /\ rb.err = "ancestor"
    /\ rb.onto.type = "Genesis" /\ rb.onto.serverStateID \in StateIDs
    /\ rb.commit.type = "Tx"
    /\ rb.onto \in store /\ rb.commit \in store
(***************************************************************************)
(* The progress of a pull, on a fresh database                             *)
(***************************************************************************)
SpecProgress == Init /\ [][NextProgress]_vars

(***************************************************************************)
(* C38: every call of the progress callback reports bytesReceived <=       *)
(* bytesExpected; within one pull bytesReceived never decreases from one   *)
(* call to the next; bytesExpected is the Entity-length header if present, *)
(* else Content-Length if it is not negative, else bytesReceived; and each *)
(* syncProgress response is the pair of the most recent call of the        *)
(* callback, the call in progress or the last one that returned, (0, 0)    *)
(* before the first.                                                       *)
(***************************************************************************)
ExpectedOfHeaders ==
    IF cr.header.present
    THEN cr.header.value
    ELSE IF cr.contentLength >= 0 THEN cr.contentLength ELSE cr.rec

ProgressBounded == cr.called => cr.rec <= cr.exp

ProgressExpected == cr.called => cr.exp = ExpectedOfHeaders

ProgressMonotone ==
    (cr.phase = "reading" /\ cr'.phase = "storing" /\ cr.called) => cr'.rec >= cr.rec

MostRecentPairs ==
    {cr.done} \cup (IF cr.phase = "storing" THEN {syncProgress(cr.rec, cr.exp)} ELSE {})

ProgressSeen == seen' # seen => seen'.res \in MostRecentPairs

C38_ProgressPairs ==
    /\ [](ProgressBounded /\ ProgressExpected)
    /\ [][ProgressMonotone /\ ProgressSeen]_vars

(***************************************************************************)
(* C39: when a Load, Put, Del, Reload or RequestSync of the handle has     *)
(* returned, with or without an error, and no other handle has written,    *)
(* the head of the handle is the commit the local dataset refers to, so    *)
(* Hash and Head report the persisted local head.                          *)
(***************************************************************************)
Returned ==
    \/ last' # last /\ last'.op \in {"Load", "Put", "Del", "Reload"}
    \/ \E c \in Callers : pc[c] # "idle" /\ pc'[c] = "idle"

C39_HeadIsLocalHead ==
    [][Returned => (HasHead(local') /\ Hash(head') = Hash(local'[1]))]_vars

(***************************************************************************)
(* C40: every Put and every Del that succeeds appends exactly one commit,  *)
(* a Tx on the old head, and makes it the head, so the head hash changes,  *)
(* also when the map does not change: a Del of an absent key returns false *)
(* and a Put of the value already stored returns, and the new Tx has the   *)
(* data and the checksum of its basis.                                     *)
(***************************************************************************)
\* time.DateTime() of a clock that is later at every commit: no two commits
\* of a store carry the same date
DateTime == TxCount + 1

NextClock ==
    \/ \E k \in ApiKeys, j \in RawJSON, e \in BOOLEAN :
          TxCount < MaxClockTx /\ Put(k, j, DateTime, e)
    \/ \E k \in ApiKeys, e \in BOOLEAN :
          TxCount < MaxClockTx /\ Del(k, DateTime, e)
    \/ Reload
    \/ Acquire("c1")
    \/ Enter("c1")
    \/ \E resp \in Responses(gen["c1"]) : Respond("c1", resp)
    \/ Finish("c1")

SpecClock == Init /\ [][NextClock]_vars

PutOf(k, j) == \E e \in BOOLEAN : Put(k, j, DateTime, e)

DelOf(k) == \E e \in BOOLEAN : Del(k, DateTime, e)

AppendsOneTx ==
    /\ Hash(head') # Hash(head)
    /\ store' \ store = {head'}
    /\ head'.type = "Tx" /\ head'.parents = <<head>>
    /\ local' = <<head'>>

SameData == head'.data = head.data /\ head'.checksum = head.checksum

C40_EveryWriteCommits ==
    [][(last'.op \in {"Put", "Del"} /\ last'.result = "ok")
         => /\ \A k \in Keys, j \in RawJSON :
                 PutOf(k, j)
                    => /\ AppendsOneTx /\ head'.name = ".putValue"
                       /\ Get(head, k) = Canonicalize(j) => SameData
            /\ \A k \in Keys :
                 DelOf(k)
                    => /\ AppendsOneTx /\ head'.name = ".delValue"
                       /\ last'.ok = Has(head, k)
                       /\ ~Has(head, k) => SameData
      ]_vars

\* the head is the Tx of a Put of the value the pulled Genesis already had,
\* and the store has the Tx of a Del of a key that was absent
C40_Witness ==
    /\ last.op = "Put" /\ last.result = "ok"
    /\ head.type = "Tx" /\ head.name = ".putValue"
    /\ head.parents[1].type = "Genesis"
    /\ head.data = head.parents[1].data
    /\ head.data # EmptyMap
    /\ \E c \in store :
          /\ c.type = "Tx" /\ c.name = ".delValue"
          /\ c.data = c.parents[1].data
          /\ c.date < head.date

====
